---- MODULE Spec2Model ----
(***************************************************************************)
(* The URL lifecycle of the image scraper service: the image_data table    *)
(* (src/models.py), its two list columns scraped_urls and processed_urls,  *)
(* the selection and mark-as-processed methods of ImageData, and the       *)
(* POST /scrape-images/ handler (src/main.py) that loads a keyword row,    *)
(* scrapes when nothing is known, selects, processes every selected URL    *)
(* and commits.                                                            *)
(*                                                                         *)
(* Three specifications:                                                   *)
(*   UnitSpec    one ImageData object, its methods called directly;        *)
(*   Spec        NumRequests requests served concurrently by one server    *)
(*               process, each with its own ORM session, interleaved at    *)
(*               the awaits of the handler;                                *)
(*   CreateSpec  get_or_create_keyword called by requests that different   *)
(*               server processes handle on the one database.              *)
(***************************************************************************)
EXTENDS Integers, Sequences, FiniteSets, TLC

(***************************************************************************)
(* Bounds of the model.                                                    *)
(***************************************************************************)
\* requests the service handles at the same time
NumRequests == 2
\* server processes sharing the database, each with its own event loop
NumWorkers == 2
\* longest list the search page yields in the model (the code cuts at 10)
MaxScrape == 2
\* largest max_save a request asks for
MaxSave == 2
\* longest scraped_urls list of the object under UnitSpec
MaxLen == 2
\* largest count passed to get_urls_to_process under UnitSpec
MaxCount == 3

URLs == {"a", "b", "c"}

Min(x, y) == IF x < y THEN x ELSE y
Max(x, y) == IF x > y THEN x ELSE y

Range(s) == {s[i] : i \in 1..Len(s)}
NoDup(s) == \A i, j \in 1..Len(s) : s[i] = s[j] => i = j
SeqsUpTo(S, n) == UNION {[1..k -> S] : k \in 0..n}

(***************************************************************************)
(* Python list slices s[:c] and s[c:], for any integer c (a negative c     *)
(* counts from the end).                                                   *)
(***************************************************************************)
SliceIndex(s, c) == IF c < 0 THEN Max(Len(s) + c, 0) ELSE Min(c, Len(s))

SliceTo(s, c) == SubSeq(s, 1, SliceIndex(s, c))

SliceFrom_skips_one(s, c) == SubSeq(s, SliceIndex(s, c) + 2, Len(s))
SliceFrom(s, c) == SubSeq(s, SliceIndex(s, c) + 1, Len(s))

(***************************************************************************)
(* random.sample(population, k): k elements drawn from k different         *)
(* positions of population, in any order.  The set of lists it may return. *)
(***************************************************************************)
random_sample_with_replacement(population, k) ==
    {[i \in 1..k |-> population[f[i]]] : f \in [1..k -> 1..Len(population)]}
random_sample(population, k) ==
    {[i \in 1..k |-> population[f[i]]] :
        f \in {g \in [1..k -> 1..Len(population)] :
                 \A i, j \in 1..k : g[i] = g[j] => i = j}}

(***************************************************************************)
(* ImageData.get_urls_to_process(count): the set of pairs                  *)
(* <<urls_to_process, updated_scraped_urls>> the call may return (one per  *)
(* outcome of the random draw).                                            *)
(***************************************************************************)
get_urls_to_process_no_fallback(self, count) ==
    {<<SliceTo(self.scraped_urls, count), SliceFrom(self.scraped_urls, count)>>}
get_urls_to_process(self, count) ==
    LET to_process == SliceTo(self.scraped_urls, count)
        remaining == SliceFrom(self.scraped_urls, count)
        remaining_count == count - Len(to_process)
    IN  IF remaining_count > 0 /\ self.processed_urls # <<>>
        THEN LET available == Min(remaining_count, Len(self.processed_urls))
             IN  {<<to_process \o random_processed, remaining>> :
                    random_processed \in random_sample(self.processed_urls, available)}
        ELSE {<<to_process, remaining>>}

(***************************************************************************)
(* An ImageData object as the ORM holds it.  scraped_urls and              *)
(* processed_urls are plain JSON columns (models.py:18-19): the unit of    *)
(* work learns of a change to one of them only from an assignment to the   *)
(* attribute, which records the value the attribute had (committed_state). *)
(* A list changed in place raises no such event.  expired: the attributes  *)
(* were discarded by a commit and are read again on the next access.       *)
(***************************************************************************)
ImageData(scraped, processed) ==
    [scraped_urls |-> scraped, processed_urls |-> processed,
     committed_state |-> {}, expired |-> FALSE]

\* self.<name> = value
SetAttr(self, name, value) ==
    [self EXCEPT ![name] = value,
                 !.committed_state =
                     IF \E p \in @ : p[1] = name THEN @
                     ELSE @ \cup {<<name, self[name]>>}]

(***************************************************************************)
(* ImageData.mark_as_processed(urls): scraped_urls is rebound to a new     *)
(* list without the urls; processed_urls is appended to in place, each url *)
(* once.                                                                   *)
(***************************************************************************)
RECURSIVE AppendNew(_, _)
AppendNew(processed, urls) ==
    IF urls = <<>> THEN processed
    ELSE AppendNew(IF Head(urls) \in Range(processed) THEN processed
                   ELSE Append(processed, Head(urls)),
                   Tail(urls))

mark_as_processed_appends_all(self, urls) ==
    LET rebound == SetAttr(self, "scraped_urls",
                           SelectSeq(self.scraped_urls,
                                     LAMBDA url : url \notin Range(urls)))
    IN  [rebound EXCEPT !.processed_urls = @ \o urls]
mark_as_processed_checks_once(self, urls) ==
    LET rebound == SetAttr(self, "scraped_urls",
                           SelectSeq(self.scraped_urls,
                                     LAMBDA url : url \notin Range(urls)))
    IN  [rebound EXCEPT !.processed_urls =
            @ \o SelectSeq(urls, LAMBDA url : url \notin Range(self.processed_urls))]
mark_as_processed(self, urls) ==
    LET rebound == SetAttr(self, "scraped_urls",
                           SelectSeq(self.scraped_urls,
                                     LAMBDA url : url \notin Range(urls)))
    IN  [rebound EXCEPT !.processed_urls = AppendNew(@, urls)]

(***************************************************************************)
(* The session and the image_data table.                                   *)
(***************************************************************************)
\* a row as the columns' default=list creates it
EmptyRow == [scraped_urls |-> <<>>, processed_urls |-> <<>>]

\* the object a query or a refresh builds from a row
Load(row) == ImageData(row.scraped_urls, row.processed_urls)

\* the UPDATE a commit flushes: the attributes that were assigned and differ
\* from the value they had; then every attribute of the object expires
Flush(row, self) ==
    [name \in DOMAIN row |->
        IF \E p \in self.committed_state : p[1] = name /\ self[name] # p[2]
        THEN self[name] ELSE row[name]]

Expire(self) == [self EXCEPT !.committed_state = {}, !.expired = TRUE]

(***************************************************************************)
(* The requests.  keyword.lower() on the keywords the model sends.         *)
(***************************************************************************)
Req == 1..NumRequests
RawKeywords == {"cats", "Cats"}
lower(keyword) == IF keyword = "Cats" THEN "cats" ELSE keyword
\* max_save: the counts the selection is specified for
SaveCounts == 0..MaxSave
Profile == "site"

\* what the search page may yield: any list of URLs, repeats included
PageURLs == {"a", "b"}
ScrapeResults == SeqsUpTo(PageURLs, MaxScrape)

(***************************************************************************)
(* ImageScraper.bing_image_scraper.  A page is the list of image links the *)
(* search would yield and what becomes of fetching and parsing it: error   *)
(* "none", a failed request ("RequestException") or anything else going    *)
(* wrong outside the per-link handling ("Exception").  Either error makes  *)
(* the method return [] (image_scraper.py:116-126); otherwise it returns   *)
(* the links, at most max_results of them.                                 *)
(***************************************************************************)
max_results == 10
ScrapeErrors == {"RequestException", "Exception"}
PageOutcomes ==
    {[error |-> e, urls |-> u] : e \in {"none"} \cup ScrapeErrors,
                                 u \in ScrapeResults}

bing_image_scraper_keeps_links(page) ==
    SubSeq(page.urls, 1, Min(Len(page.urls), max_results))
bing_image_scraper(page) ==
    IF page.error # "none" THEN <<>>
    ELSE SubSeq(page.urls, 1, Min(Len(page.urls), max_results))

(***************************************************************************)
(* ImageScraper.save_and_process_image as its caller sees it.  outcome is  *)
(* what the environment does to this image.  The result is either the pair *)
(* (saved_url, remaining_urls), of which the handler keeps saved_url, or,  *)
(* on three of the paths, the bare original_url string.                    *)
(* The file name is the first free name in the save directory              *)
(* (image_scraper.py:174-185); the directory is not modelled and the name  *)
(* carries the ordinal of the save within the request.                     *)
(***************************************************************************)
\* decided before the download starts
EarlyOutcomes == {"writable", "no_write_permission"}
\* decided by the download and what follows it
ImageOutcomes == {"saved", "watermark_error", "decode_error", "download_error",
                  "bad_status", "move_error"}

public_url(keyword, n) ==
    "https://" \o Profile \o "/images/" \o keyword \o ToString(n) \o ".webp"

LimitReached(saved_count, max_save) == saved_count >= max_save

save_and_process_image(image_url, keyword, saved_count, outcome) ==
    CASE outcome \in {"saved", "watermark_error"} ->
            [is_tuple |-> TRUE, saved_url |-> public_url(keyword, saved_count),
             saved_count |-> saved_count + 1]
      [] outcome \in {"decode_error", "download_error"} ->
            [is_tuple |-> TRUE, saved_url |-> image_url, saved_count |-> saved_count]
      [] outcome \in {"bad_status", "move_error", "no_write_permission"} ->
            [is_tuple |-> FALSE, saved_url |-> image_url, saved_count |-> saved_count]

VARIABLES
    db,               \* image_data: normalized keyword -> row, for the rows that exist
    worker,           \* the server process that handles each request
    running,          \* the request each process's event loop is executing, 0 when idle
    pc,               \* each request's position in scrape_images
    request,          \* each request's body: keyword, max_save
    db_keyword,       \* each request's ImageData object
    new_urls,         \* <<list>> once the request has scraped, <<>> before
    urls_to_process,  \* the lists get_urls_to_process returned
    remaining_urls,
    pos,              \* index of the url the for loop is at
    saved_urls,
    saved_count,      \* scraper._saved_count
    response,         \* the HTTP response, status 0 while there is none
    hist,             \* history of each request, for the properties only
    known,            \* keywords whose row a request that ended with 200 left with a URL
    returned,         \* <<keyword, url>>: a request that ended with 200 had selected url
    obj,              \* UnitSpec: the object under test
    ret               \* UnitSpec: the last call, its arguments and its result

reqVars == <<db, worker, running, pc, request, db_keyword, new_urls, urls_to_process,
             remaining_urls, pos, saved_urls, saved_count, response, hist, known,
             returned>>
unitVars == <<obj, ret>>
vars == <<reqVars, unitVars>>

NoResponse == [status |-> 0]
NoCall == [op |-> "none"]
NoHist == [seen |-> EmptyRow, scraped_known |-> FALSE, wrote |-> FALSE,
           failed |-> {}, scrape |-> "none", results |-> <<>>]

Workers == 1..NumWorkers

ReqIdle ==
    /\ db = <<>>
    /\ running = [w \in Workers |-> 0]
    /\ pc = [r \in Req |-> "idle"]
    /\ request = [r \in Req |-> [keyword |-> "cats", max_save |-> 0]]
    /\ db_keyword = [r \in Req |-> ImageData(<<>>, <<>>)]
    /\ new_urls = [r \in Req |-> <<>>]
    /\ urls_to_process = [r \in Req |-> <<>>]
    /\ remaining_urls = [r \in Req |-> <<>>]
    /\ pos = [r \in Req |-> 1]
    /\ saved_urls = [r \in Req |-> <<>>]
    /\ saved_count = [r \in Req |-> 0]
    /\ response = [r \in Req |-> NoResponse]
    /\ hist = [r \in Req |-> NoHist]
    /\ known = {}
    /\ returned = {}

\* main.py:132-138: uvicorn.run starts one server process
ReqInit == ReqIdle /\ worker = [r \in Req |-> 1]

UnitIdle == obj = ImageData(<<>>, <<>>) /\ ret = NoCall

Init == ReqInit /\ UnitIdle

Known(row) == row.scraped_urls # <<>> \/ row.processed_urls # <<>>
KnownIn(table, k) == k \in DOMAIN table /\ Known(table[k])
Key(r) == lower(request[r].keyword)

\* a request that ended with 200 left the row of k with a URL in one of its lists
SomeoneLeftKnown(k) == k \in known

ServerError(exc) == [status |-> 500, detail |-> exc]
NoMoreImages ==
    [status |-> 200, message |-> "No more images to process",
     saved_urls |-> <<>>, remaining_urls |-> <<>>]
Success(keyword, saved, remaining) ==
    [status |-> 200, keyword |-> keyword, saved_count |-> Len(saved),
     saved_urls |-> saved, remaining_urls |-> remaining]

\* An ended request is closed before any handler goes on: Close touches only
\* what belongs to the ended request, so its place among the steps of the
\* others changes nothing they can see.
Quiet == \A q \in Req : pc[q] # "done"

(***************************************************************************)
(* The end of a request: the return of a response, or the except clause    *)
(* (main.py:122-125), whose rollback discards what was not committed.  The *)
(* event loop is free again.  table is image_data as the request leaves it.*)
(***************************************************************************)
Finish(r, k, resp, table, h) ==
    /\ pc' = [pc EXCEPT ![r] = "done"]
    /\ response' = [response EXCEPT ![r] = resp]
    /\ running' = [running EXCEPT ![worker[r]] = 0]
    /\ hist' = [hist EXCEPT ![r] = h]
    /\ known' = IF resp.status = 200 /\ KnownIn(table, k) THEN known \cup {k}
                 ELSE known
    /\ returned' = IF resp.status = 200
                    THEN returned \cup {<<k, url>> : url \in Range(urls_to_process[r])}
                    ELSE returned

(***************************************************************************)
(* get_or_create_keyword, the query (main.py:47).  The request arrives     *)
(* here: its body is chosen.  Requests are numbered in order of arrival.   *)
(***************************************************************************)
Query(r) ==
    /\ Quiet
    /\ pc[r] = "idle"
    /\ running[worker[r]] = 0
    /\ \A q \in 1..(r - 1) : pc[q] # "idle"
    /\ \E keyword \in RawKeywords, max_save \in SaveCounts, up \in BOOLEAN :
         LET k == lower(keyword) IN
         /\ request' = [request EXCEPT ![r] = [keyword |-> keyword,
                                                max_save |-> max_save]]
         /\ IF ~up
            THEN /\ Finish(r, k, ServerError("OperationalError"), db, hist[r])
                 /\ UNCHANGED db_keyword
            ELSE /\ running' = [running EXCEPT ![worker[r]] = r]
                 /\ IF k \in DOMAIN db
                    THEN /\ pc' = [pc EXCEPT ![r] = "check"]
                         /\ db_keyword' = [db_keyword EXCEPT ![r] = Load(db[k])]
                    ELSE /\ pc' = [pc EXCEPT ![r] = "create"]
                         /\ UNCHANGED db_keyword
                 /\ UNCHANGED <<response, hist, known, returned>>
    /\ UNCHANGED <<db, new_urls, urls_to_process, remaining_urls, pos,
                   saved_urls, saved_count, unitVars, worker>>

(***************************************************************************)
(* get_or_create_keyword, the insert (main.py:48-52): add, commit,         *)
(* refresh.  keyword is a unique column: a second row is refused.          *)
(***************************************************************************)
Create(r) ==
    /\ Quiet
    /\ pc[r] = "create"
    /\ running[worker[r]] = r
    /\ \E up \in BOOLEAN :
         IF ~up
         THEN /\ Finish(r, Key(r), ServerError("OperationalError"), db, hist[r])
              /\ UNCHANGED <<db, db_keyword>>
         ELSE IF Key(r) \in DOMAIN db
         THEN /\ Finish(r, Key(r), ServerError("IntegrityError"), db, hist[r])
              /\ UNCHANGED <<db, db_keyword>>
         ELSE /\ db' = (Key(r) :> EmptyRow) @@ db
              /\ db_keyword' = [db_keyword EXCEPT ![r] = Load(EmptyRow)]
              /\ pc' = [pc EXCEPT ![r] = "check"]
              /\ UNCHANGED <<running, response, hist, known, returned>>
    /\ UNCHANGED <<request, new_urls, urls_to_process, remaining_urls, pos,
                   saved_urls, saved_count, unitVars, worker>>

(***************************************************************************)
(* main.py:85-89: nothing known, so scrape, assign and commit.             *)
(* bing_image_scraper returns the list the page yields, [] on any error.   *)
(***************************************************************************)
ScrapeNew(r) ==
    /\ Quiet
    /\ pc[r] = "check"
    /\ running[worker[r]] = r
    /\ ~Known(db_keyword[r])
    /\ \E page \in PageOutcomes, up \in BOOLEAN :
         LET k == Key(r)
             scraped == bing_image_scraper(page)
             assigned == SetAttr(db_keyword[r], "scraped_urls", scraped)
             row == Flush(db[k], assigned)
             h == [hist[r] EXCEPT !.scraped_known = SomeoneLeftKnown(k),
                                  !.scrape = page.error]
         IN
         /\ new_urls' = [new_urls EXCEPT ![r] = <<scraped>>]
         /\ IF ~up
            THEN /\ Finish(r, k, ServerError("OperationalError"), db, h)
                 /\ db_keyword' = [db_keyword EXCEPT ![r] = assigned]
                 /\ UNCHANGED db
            ELSE /\ db' = [db EXCEPT ![k] = row]
                 /\ db_keyword' = [db_keyword EXCEPT ![r] = Expire(assigned)]
                 /\ pc' = [pc EXCEPT ![r] = "select"]
                 /\ hist' = [hist EXCEPT ![r] = [h EXCEPT !.wrote = row # db[k]]]
                 /\ UNCHANGED <<running, response, known, returned>>
    /\ UNCHANGED <<request, urls_to_process, remaining_urls, pos,
                   saved_urls, saved_count, unitVars, worker>>

(***************************************************************************)
(* main.py:92-100: the selection.  An expired object is read again from    *)
(* its row first.  Nothing selected: the request ends here.                *)
(***************************************************************************)
Select(r) ==
    /\ Quiet
    /\ running[worker[r]] = r
    /\ \/ pc[r] = "check" /\ Known(db_keyword[r])
       \/ pc[r] = "select"
    /\ \E up \in (IF db_keyword[r].expired THEN BOOLEAN ELSE {TRUE}) :
         IF ~up
         THEN /\ Finish(r, Key(r), ServerError("OperationalError"), db, hist[r])
              /\ UNCHANGED <<db_keyword, urls_to_process, remaining_urls>>
         ELSE LET self == IF db_keyword[r].expired THEN Load(db[Key(r)])
                          ELSE db_keyword[r]
                  h == [hist[r] EXCEPT !.seen =
                            [scraped_urls |-> self.scraped_urls,
                             processed_urls |-> self.processed_urls]]
              IN
              \E pair \in get_urls_to_process(self, request[r].max_save) :
                 /\ db_keyword' = [db_keyword EXCEPT ![r] = self]
                 /\ urls_to_process' = [urls_to_process EXCEPT ![r] = pair[1]]
                 /\ remaining_urls' = [remaining_urls EXCEPT ![r] = pair[2]]
                 /\ IF pair[1] = <<>>
                    THEN Finish(r, Key(r), NoMoreImages, db, h)
                    ELSE /\ pc' = [pc EXCEPT ![r] = "process"]
                         /\ hist' = [hist EXCEPT ![r] = h]
                         /\ UNCHANGED <<running, response, known, returned>>
    /\ UNCHANGED <<db, request, new_urls, pos, saved_urls, saved_count, unitVars, worker>>

(***************************************************************************)
(* main.py:104-107, one turn of the loop up to the first await of          *)
(* save_and_process_image: the save limit (image_scraper.py:152-155) and   *)
(* the write permission (194-197) are decided without suspending; the      *)
(* download suspends the handler and frees the event loop.                 *)
(***************************************************************************)
StartImage(r) ==
    /\ Quiet
    /\ pc[r] = "process"
    /\ running[worker[r]] = r
    /\ pos[r] <= Len(urls_to_process[r])
    /\ LET url == urls_to_process[r][pos[r]] IN
       IF LimitReached(saved_count[r], request[r].max_save)
       THEN /\ pos' = [pos EXCEPT ![r] = @ + 1]
            /\ hist' = [hist EXCEPT ![r].results = Append(@, url)]
            /\ UNCHANGED <<pc, running, response, known, returned>>
       ELSE \E early \in EarlyOutcomes :
              IF early = "writable"
              THEN /\ pc' = [pc EXCEPT ![r] = "download"]
                   /\ running' = [running EXCEPT ![worker[r]] = 0]
                   /\ UNCHANGED <<pos, response, hist, known, returned>>
              ELSE IF save_and_process_image(url, request[r].keyword,
                                                saved_count[r], early).is_tuple
              THEN /\ pos' = [pos EXCEPT ![r] = @ + 1]
                   /\ hist' = [hist EXCEPT ![r].failed = @ \cup {url},
                                            ![r].results = Append(@, url)]
                   /\ UNCHANGED <<pc, running, response, known, returned>>
              ELSE /\ Finish(r, Key(r), ServerError("ValueError"), db,
                             [hist[r] EXCEPT !.failed = @ \cup {url}])
                   /\ UNCHANGED pos
    /\ UNCHANGED <<db, request, db_keyword, new_urls, urls_to_process,
                   remaining_urls, saved_urls, saved_count, unitVars, worker>>

(***************************************************************************)
(* The download is over and the handler resumes: save_and_process_image    *)
(* returns, `saved_url, _ = ...` unpacks the result (a bare string does    *)
(* not unpack: ValueError), and a saved_url other than the url is kept.    *)
(***************************************************************************)
FinishImage(r) ==
    /\ Quiet
    /\ pc[r] = "download"
    /\ running[worker[r]] = 0
    /\ \E outcome \in ImageOutcomes :
         LET url == urls_to_process[r][pos[r]]
             result == save_and_process_image(url, request[r].keyword,
                                              saved_count[r], outcome)
             h == [hist[r] EXCEPT !.failed =
                       IF result.saved_url = url THEN @ \cup {url} ELSE @,
                                  !.results =
                       IF result.is_tuple THEN Append(@, result.saved_url) ELSE @]
         IN
         IF result.is_tuple
         THEN /\ saved_urls' = [saved_urls EXCEPT ![r] =
                    IF result.saved_url # url THEN Append(@, result.saved_url)
                    ELSE @]
              /\ saved_count' = [saved_count EXCEPT ![r] = result.saved_count]
              /\ pos' = [pos EXCEPT ![r] = @ + 1]
              /\ pc' = [pc EXCEPT ![r] = "process"]
              /\ running' = [running EXCEPT ![worker[r]] = r]
              /\ hist' = [hist EXCEPT ![r] = h]
              /\ UNCHANGED <<response, known, returned>>
         ELSE /\ Finish(r, Key(r), ServerError("ValueError"), db, h)
              /\ UNCHANGED <<saved_urls, saved_count, pos>>
    /\ UNCHANGED <<db, request, db_keyword, new_urls, urls_to_process,
                   remaining_urls, unitVars, worker>>

(***************************************************************************)
(* main.py:110-111: mark the selected urls, then assign the remaining list *)
(* to scraped_urls.                                                        *)
(***************************************************************************)
MarkProcessed(r) ==
    /\ Quiet
    /\ pc[r] = "process"
    /\ running[worker[r]] = r
    /\ pos[r] > Len(urls_to_process[r])
    /\ db_keyword' = [db_keyword EXCEPT ![r] =
           SetAttr(mark_as_processed(@, urls_to_process[r]),
                   "scraped_urls", remaining_urls[r])]
    /\ pc' = [pc EXCEPT ![r] = "commit"]
    /\ UNCHANGED <<db, running, request, new_urls, urls_to_process, remaining_urls,
                   pos, saved_urls, saved_count, response, hist, known, returned,
                   unitVars, worker>>

(***************************************************************************)
(* main.py:112-120: the commit and the response.                           *)
(***************************************************************************)
Commit(r) ==
    /\ Quiet
    /\ pc[r] = "commit"
    /\ running[worker[r]] = r
    /\ \E up \in BOOLEAN :
         LET k == Key(r)
             row == Flush(db[k], db_keyword[r])
             table == [db EXCEPT ![k] = row]
         IN
         IF ~up
         THEN /\ Finish(r, k, ServerError("OperationalError"), db, hist[r])
              /\ UNCHANGED <<db, db_keyword>>
         ELSE /\ db' = table
              /\ db_keyword' = [db_keyword EXCEPT ![r] = Expire(@)]
              /\ Finish(r, k, Success(request[r].keyword, saved_urls[r],
                                      remaining_urls[r]),
                        table, [hist[r] EXCEPT !.wrote = @ \/ row # db[k]])
    /\ UNCHANGED <<request, new_urls, urls_to_process, remaining_urls, pos,
                   saved_urls, saved_count, unitVars, worker>>

(***************************************************************************)
(* The response is sent and get_db closes the session (main.py:33-38):     *)
(* nothing of the request is left.                                         *)
(***************************************************************************)
Close(r) ==
    /\ pc[r] = "done"
    /\ pc' = [pc EXCEPT ![r] = "idle"]
    /\ request' = [request EXCEPT ![r] = [keyword |-> "cats", max_save |-> 0]]
    /\ db_keyword' = [db_keyword EXCEPT ![r] = ImageData(<<>>, <<>>)]
    /\ new_urls' = [new_urls EXCEPT ![r] = <<>>]
    /\ urls_to_process' = [urls_to_process EXCEPT ![r] = <<>>]
    /\ remaining_urls' = [remaining_urls EXCEPT ![r] = <<>>]
    /\ pos' = [pos EXCEPT ![r] = 1]
    /\ saved_urls' = [saved_urls EXCEPT ![r] = <<>>]
    /\ saved_count' = [saved_count EXCEPT ![r] = 0]
    /\ response' = [response EXCEPT ![r] = NoResponse]
    /\ hist' = [hist EXCEPT ![r] = NoHist]
    /\ UNCHANGED <<db, running, known, returned, unitVars, worker>>

Next ==
    \E r \in Req :
        \/ Query(r)
        \/ Create(r)
        \/ ScrapeNew(r)
        \/ Select(r)
        \/ StartImage(r)
        \/ FinishImage(r)
        \/ MarkProcessed(r)
        \/ Commit(r)
        \/ Close(r)

Spec == Init /\ [][Next]_vars

(***************************************************************************)
(* CreateSpec: get_or_create_keyword (main.py:45-53) called by requests    *)
(* that NumWorkers server processes handle (main:app under several uvicorn *)
(* workers, or several instances) on the one PostgreSQL database           *)
(* (db_engine.py:11-18).  Requests are dealt to the processes in turn;     *)
(* each process has its own event loop, so the query of one request and    *)
(* the insert of another interleave.  A request that obtained its record   *)
(* rests at "check": what the handler does with it is Spec's matter.       *)
(***************************************************************************)
WorkersInit ==
    /\ ReqIdle
    /\ worker = [r \in Req |-> ((r - 1) % NumWorkers) + 1]
    /\ UnitIdle

CreateNext ==
    \E r \in Req :
        \/ Query(r)
        \/ Create(r)
        \/ Close(r)

CreateSpec == WorkersInit /\ [][CreateNext]_vars

(***************************************************************************)
(* UnitSpec: the two methods called on one object, for every object with   *)
(* at most MaxLen scraped urls and a processed list without repeats (which *)
(* is how mark_as_processed keeps it).                                     *)
(***************************************************************************)
UnitObjects ==
    {ImageData(s, p) : s \in SeqsUpTo(URLs, MaxLen),
                       p \in {q \in SeqsUpTo(URLs, Cardinality(URLs)) : NoDup(q)}}
UnitCounts == 0..MaxCount

UnitInit == ReqInit /\ obj \in UnitObjects /\ ret = NoCall

UnitSelect ==
    /\ \E count \in UnitCounts :
         \E pair \in get_urls_to_process(obj, count) :
            ret' = [op |-> "get_urls_to_process", self |-> obj, count |-> count,
                    to_process |-> pair[1], remaining |-> pair[2]]
    /\ UNCHANGED <<obj, reqVars>>

UnitMark ==
    /\ \E urls \in SeqsUpTo(URLs, MaxLen) :
         /\ obj' = mark_as_processed(obj, urls)
         /\ ret' = [op |-> "mark_as_processed", self |-> obj, urls |-> urls]
    /\ UNCHANGED reqVars

UnitNext == UnitSelect \/ UnitMark

UnitSpec == UnitInit /\ [][UnitNext]_vars

(***************************************************************************)
(* Properties.                                                             *)
(***************************************************************************)
Disjoint(row) == Range(row.scraped_urls) \cap Range(row.processed_urls) = {}

\* the request has selected urls and has not been closed
Selected(r) ==
    pc[r] \in {"process", "download", "commit", "done"} /\ urls_to_process[r] # <<>>

\* the request holds a loaded object it has yet to commit
InFlight(r) == pc[r] \in {"check", "select", "process", "download", "commit"}

\* C1: no URL is in both scraped_urls and processed_urls, in any row of the
\* table and in any request's object, whatever list the search returned.
C1_Disjointness ==
    /\ \A k \in DOMAIN db : Disjoint(db[k])
    /\ \A r \in Req : Disjoint(db_keyword[r])

\* C2: requests of one keyword, each with max_save = 1, that all selected
\* from the same row, a row with as many distinct scraped urls as there are
\* such requests and no processed url, selected pairwise different urls.
C2_ConcurrentServing ==
    \A S \in SUBSET Req :
        (/\ Cardinality(S) >= 2
         /\ \A r \in S : /\ Selected(r)
                         /\ request[r].max_save = 1
                         /\ hist[r].seen.processed_urls = <<>>
                         /\ NoDup(hist[r].seen.scraped_urls)
                         /\ Len(hist[r].seen.scraped_urls) = Cardinality(S)
         /\ \A r1, r2 \in S : Key(r1) = Key(r2) /\ hist[r1].seen = hist[r2].seen)
        => \A r1, r2 \in S :
              r1 # r2 => Range(urls_to_process[r1]) \cap Range(urls_to_process[r2]) = {}

\* C3: no two requests of one keyword are at the same time between the load
\* of the keyword's row and their commit of it.
C3_OneWriter ==
    \A r1, r2 \in Req :
        r1 # r2 /\ InFlight(r1) /\ InFlight(r2) => Key(r1) # Key(r2)

\* C4: once a request has ended leaving a URL in a list of the keyword's
\* row, no request scrapes for that keyword.
C4_ScrapeOnce == \A r \in Req : ~hist[r].scraped_known

\* C5: a request in which the processing of a selected url failed ends with
\* the 200 response, without that url among saved_urls, and with that url in
\* the processed_urls of the keyword's row.
C5_FailureAbsorbed ==
    \A r \in Req :
        pc[r] = "done" /\ hist[r].failed # {}
        => /\ response[r].status = 200
           /\ hist[r].failed \cap Range(response[r].saved_urls) = {}
           /\ hist[r].failed \subseteq Range(db[Key(r)].processed_urls)

\* C6: a request that ends with the 500 response because the database was
\* unreachable has changed neither list of the keyword's row.
C6_NoMutationOnStoreFailure ==
    \A r \in Req :
        pc[r] = "done" /\ response[r] = ServerError("OperationalError")
        => ~hist[r].wrote

IsSelect == ret.op = "get_urls_to_process"
\* the number of urls get_urls_to_process takes from the front of scraped_urls
Primary == Min(ret.count, Len(ret.self.scraped_urls))
\* the urls of the result that follow those taken from scraped_urls
Extra == SubSeq(ret.to_process, Primary + 1, Len(ret.to_process))

\* C7: get_urls_to_process(n), n >= 0, returns at most n urls, and exactly n
\* if and only if scraped_urls and processed_urls hold at least n together.
C7_CountBound ==
    IsSelect =>
        /\ Len(ret.to_process) <= ret.count
        /\ Len(ret.to_process) = ret.count
             <=> Len(ret.self.scraped_urls) + Len(ret.self.processed_urls) >= ret.count

C7_Witness ==
    /\ IsSelect
    /\ ret.count = 3
    /\ Len(ret.self.scraped_urls) = 1
    /\ Len(ret.to_process) = 3

\* C8: the result of get_urls_to_process(n), n >= 0, begins with the first
\* min(n, len(scraped_urls)) scraped urls in their order, the remaining list
\* is the rest of scraped_urls in order, and the two together are scraped_urls.
C8_OrderAndSplit ==
    IsSelect =>
        /\ Len(ret.to_process) >= Primary
        /\ SubSeq(ret.to_process, 1, Primary) = SubSeq(ret.self.scraped_urls, 1, Primary)
        /\ ret.remaining = SubSeq(ret.self.scraped_urls, Primary + 1,
                                  Len(ret.self.scraped_urls))
        /\ SubSeq(ret.to_process, 1, Primary) \o ret.remaining = ret.self.scraped_urls

C8_Witness ==
    /\ IsSelect
    /\ ret.count = 1
    /\ ret.self.scraped_urls = <<"b", "a">>
    /\ ret.to_process = <<"b">>
    /\ ret.remaining = <<"a">>

\* C9: when get_urls_to_process(n) takes fewer than n urls from scraped_urls
\* and processed_urls is not empty, min(deficit, len(processed_urls)) urls of
\* processed_urls, no two the same, follow those taken from scraped_urls;
\* when it takes n, none follows.
C9_Fallback ==
    IsSelect =>
        LET deficit == ret.count - Primary IN
        /\ deficit > 0 /\ ret.self.processed_urls # <<>>
             => /\ Len(Extra) = Min(deficit, Len(ret.self.processed_urls))
                /\ NoDup(Extra)
                /\ Range(Extra) \subseteq Range(ret.self.processed_urls)
        /\ deficit = 0 => Extra = <<>>

C9_Witness ==
    /\ IsSelect
    /\ ret.count = 2
    /\ ret.self.scraped_urls = <<>>
    /\ ret.self.processed_urls = <<"a", "b", "c">>
    /\ Len(ret.to_process) = 2
    /\ ret.to_process[1] # ret.to_process[2]
    /\ ret.remaining = <<>>

\* C10: a request with max_save = n >= 1 that scraped the list L and ended
\* with a 200 response reports as remaining_urls L without its first
\* min(n, len(L)) urls, leaves that list as the row's scraped_urls, and
\* leaves every selected url in the row's processed_urls.
C10_FreshOutcome ==
    \A r \in Req :
        (/\ pc[r] = "done"
         /\ new_urls[r] # <<>>
         /\ request[r].max_save >= 1
         /\ response[r].status = 200)
        => LET L == new_urls[r][1]
               taken == Min(request[r].max_save, Len(L))
           IN  /\ response[r].remaining_urls = SubSeq(L, taken + 1, Len(L))
               /\ db[Key(r)].scraped_urls = response[r].remaining_urls
               /\ Range(urls_to_process[r]) \subseteq Range(db[Key(r)].processed_urls)


\* the request ended in the except clause because the database was unreachable
StoreFailed(r) ==
    response[r].status = 500 /\ response[r].detail = "OperationalError"

\* C11: a request that found both lists empty and whose scrape returned no
\* URL (an empty page or an error of the search), the database staying
\* reachable, ends with the 200 response "No more images to process" with
\* empty saved_urls and remaining_urls, and leaves both lists of the row empty.
C11_ScrapeFailureEmpty ==
    \A r \in Req :
        (/\ pc[r] = "done"
         /\ new_urls[r] # <<>>
         /\ hist[r].scrape \in ScrapeErrors \/ new_urls[r][1] = <<>>
         /\ ~StoreFailed(r))
        => /\ response[r].status = 200
           /\ response[r].message = "No more images to process"
           /\ response[r].saved_urls = <<>>
           /\ response[r].remaining_urls = <<>>
           /\ db[Key(r)] = EmptyRow

C11_Witness ==
    \E r \in Req :
        /\ pc[r] = "done"
        /\ new_urls[r] = << <<>> >>
        /\ hist[r].scrape = "RequestException"
        /\ request[r].max_save = 2
        /\ response[r] = NoMoreImages
        /\ db[Key(r)] = EmptyRow

\* the request ended in the except clause on the unique constraint of keyword
CreateFailed(r) ==
    response[r].status = 500 /\ response[r].detail = "IntegrityError"

\* C12: the table holds one row per lower-cased keyword (every row is keyed
\* by a lower-cased keyword), and no request fails because another request
\* created the row of its keyword first: each obtains the row.
C12_ExactlyOnceCreation ==
    /\ \A k \in DOMAIN db : lower(k) = k
    /\ \A r \in Req : pc[r] = "done" => ~CreateFailed(r)

\* the call that has just returned is mark_as_processed
IsMark == ret.op = "mark_as_processed"

\* C13: mark_as_processed(urls) called on an object right after
\* mark_as_processed(urls), with the same urls, changes neither
\* processed_urls nor scraped_urls.
C13_MarkIdempotent ==
    [][(IsMark /\ IsMark' /\ ret'.urls = ret.urls)
       => /\ obj'.processed_urls = obj.processed_urls
          /\ obj'.scraped_urls = obj.scraped_urls]_vars

\* the second of two calls with urls that repeat a url, one of them still in
\* scraped_urls before the first call
C13_Witness ==
    /\ IsMark
    /\ ret.urls = <<"a", "a">>
    /\ ret.self.processed_urls = <<"b", "a">>
    /\ ret.self.scraped_urls = <<"c">>
    /\ <<"scraped_urls", <<"a", "c">> >> \in ret.self.committed_state
    /\ obj.processed_urls = <<"b", "a">>
    /\ obj.scraped_urls = <<"c">>

\* C14: processed_urls of a record holds each URL at most once, whatever
\* urls are marked: urls that repeat a URL, urls already in processed_urls.
C14_ServedNoDuplicates == NoDup(obj.processed_urls)

\* marked: a url twice that was not in processed_urls, and one that was
C14_Witness ==
    /\ IsMark
    /\ ret.urls = <<"a", "a">>
    /\ ret.self.processed_urls = <<"b">>
    /\ obj.processed_urls = <<"b", "a">>
    /\ \E i \in 1..Len(ret.self.scraped_urls) : ret.self.scraped_urls[i] = "a"

\* what save_and_process_image returned for the urls, in order, less the
\* results that are the url itself
RECURSIVE ProcessedResults(_, _)
ProcessedResults(results, urls) ==
    IF results = <<>> THEN <<>>
    ELSE (IF Head(results) # Head(urls) THEN <<Head(results)>> ELSE <<>>)
         \o ProcessedResults(Tail(results), Tail(urls))

\* the request ended with the success response for a non-empty selection
Succeeded(r) ==
    pc[r] = "done" /\ response[r].status = 200 /\ urls_to_process[r] # <<>>

\* in a success response, saved_urls is the results that differ from their
\* url, in selection order, and saved_count is its length, at most max_save
SavedAsProcessed(r) ==
    /\ response[r].saved_urls =
           ProcessedResults(hist[r].results, urls_to_process[r])
    /\ response[r].saved_count = Len(response[r].saved_urls)
    /\ response[r].saved_count <= request[r].max_save

\* every selected url is in processed_urls of the keyword's row
PickedServed(r) ==
    Range(urls_to_process[r]) \subseteq Range(db[Key(r)].processed_urls)

\* C15: a request that ends with the success response for a non-empty
\* selection reports as saved_urls exactly the results that differ from the
\* selected url, in selection order, with saved_count their number and at
\* most max_save, and leaves every selected url in processed_urls.
C15_SavedReporting ==
    \A r \in Req : Succeeded(r) => SavedAsProcessed(r) /\ PickedServed(r)

====
